---- MODULE Spec2Model ----
(***************************************************************************)
(* A model of conpot's BACnet application layer (BACnetApp): the device    *)
(* store built at start-up, the indication dispatcher, the four service    *)
(* handlers and the response transmitter.                                  *)
(***************************************************************************)
EXTENDS Integers, Sequences, FiniteSets, TLC

VARIABLES
    phase,              \* "constructed" | "loading" | "serving" | "failed"
    objectName,         \* self.objectName: name -> identifier of the object held
    objectIdentifier,   \* self.objectIdentifier: identifier -> object
    objectList,         \* self.localDevice.objectList.value[1:]
    deviceIdentifier,   \* self.deviceIdentifier
    _response,          \* self._response
    last,               \* the datagram handled last and what the transport saw
    inflight            \* requester -> its datagram between indication and response

vars == <<phase, objectName, objectIdentifier, objectList, deviceIdentifier,
          _response, last, inflight>>

store == <<objectName, objectIdentifier, objectList, deviceIdentifier>>

(***************************************************************************)
(* Bounds of the model.                                                    *)
(***************************************************************************)
\* number of objects a template registers
MaxObjects == 2
\* Who-Is / Who-Has range limits are drawn from DevInst-LimitSpan .. DevInst+LimitSpan
LimitSpan == 1
\* read-access specifications in one Read-Property-Multiple request
MaxSpecs == 2
\* invoke ids 1 .. MaxInvokeID
MaxInvokeID == 2

(***************************************************************************)
(* Values.  Python's None is the empty sequence, a present value x is <<x>>.*)
(***************************************************************************)
None == <<>>
Some(x) == <<x>>

\* the wildcard instance number of readProperty / readPropertyMultiple
WildcardInstance == 4194303

\* the reference configuration the tests run against
DevInst == 36113
VendorIdentifier == 15
MaxApduLengthAccepted == 1024
AnalogInstance == 14
BinaryInstance == 12
PresentValueAI == 68

DevId == <<"device", DevInst>>
DevName == "Device 1"

\* the requesters: (host, port) tuples
Addrs == { <<"10.0.0.1", 47808>>, <<"10.0.0.2", 50000>> }
InvokeIDs == 1 .. MaxInvokeID

\* bacpypes.pdu.Address built from a (host, port) tuple is a local station
PduAddress(address) == [addrType |-> "localStationAddr", addr |-> address]

\* bacpypes.pdu.GlobalBroadcast(), the address "*:*"
GlobalBroadcast == [addrType |-> "globalBroadcast"]

\* int() applied to the text of a template element
IntOfText(t) ==
    CASE t = "1024"  -> MaxApduLengthAccepted
      [] t = "15"    -> VendorIdentifier
      [] t = "36113" -> DevInst
      [] OTHER       -> 0

(***************************************************************************)
(* Objects.  obj._properties, the schema of an object: every property has  *)
(* an identifier and an optional flag.  An object holds a read outcome for *)
(* the properties the template set; a property of the schema that was not  *)
(* set reads as None.                                                      *)
(***************************************************************************)
_properties ==
    << [identifier |-> "objectName",    optional |-> FALSE],
       [identifier |-> "presentValue",  optional |-> FALSE],
       [identifier |-> "description",   optional |-> TRUE],
       [identifier |-> "reliability",   optional |-> TRUE],
       [identifier |-> "propertyList",  optional |-> FALSE] >>

Value(v) == [kind |-> "value", value |-> v]
ExecutionError(c, e) == [kind |-> "error", errorClass |-> c, errorCode |-> e]

\* an object record of the template (name, identifier, properties set)
NewObject(name, oid, values) ==
    [objectName |-> name, objectIdentifier |-> oid, values |-> values]

ReferenceObjects ==
    << NewObject("AI 01", << "analogInput", AnalogInstance >>,
                 [p \in {"objectName", "presentValue", "reliability", "propertyList"} |->
                     CASE p = "objectName"   -> Value("AI 01")
                       [] p = "presentValue" -> Value(PresentValueAI)
                       [] p = "reliability"  -> ExecutionError("property", "invalidDataType")
                       [] OTHER              -> Value("list")]),
       NewObject("BI 01", << "binaryInput", BinaryInstance >>,
                 [p \in {"objectName", "presentValue", "propertyList"} |->
                     CASE p = "objectName"   -> Value("BI 01")
                       [] p = "presentValue" -> Value(0)
                       [] OTHER              -> Value("list")]),
       NewObject("AI 02", << "analogInput", AnalogInstance + 1 >>,
                 [p \in {"objectName", "propertyList"} |->
                     CASE p = "objectName"   -> Value("AI 02")
                       [] OTHER              -> Value("list")]) >>

\* the object list of the template: the first MaxObjects reference objects
Template ==
    SubSeq(ReferenceObjects, 1,
           IF MaxObjects < Len(ReferenceObjects) THEN MaxObjects ELSE Len(ReferenceObjects))

\* the device object handed to the constructor
LocalDevice ==
    NewObject(DevName, DevId, [p \in {"objectName"} |-> Value(DevName)])

\* the device_info elements of the template that become device properties
DeviceInfo ==
    << <<"vendorIdentifier", "15">>,
       <<"maxApduLengthAccepted", "1024">>,
       <<"segmentationSupported", "segmentedBoth">> >>

(***************************************************************************)
(* Responses: the values self._response takes.                             *)
(***************************************************************************)
NoReply == [kind |-> "None"]

IAmRequest(dest, devid, maxApdu, segmentation, vendor) ==
    [kind |-> "IAmRequest", pduDestination |-> dest,
     iAmDeviceIdentifier |-> devid, maxAPDULengthAccepted |-> maxApdu,
     segmentationSupported |-> segmentation, vendorID |-> vendor]

IHaveRequest(dest, devid, oid, name) ==
    [kind |-> "IHaveRequest", pduDestination |-> dest,
     deviceIdentifier |-> devid, objectIdentifier |-> oid, objectName |-> name]

ReadPropertyACK(dest, invoke, oid, name, prop, value) ==
    [kind |-> "ReadPropertyACK", pduDestination |-> dest, apduInvokeID |-> invoke,
     objectIdentifier |-> oid, objectName |-> name,
     propertyIdentifier |-> prop, propertyValue |-> value]

\* Error(errorClass=, errorCode=, context=request): destination and invoke id
\* are taken from the request
Error(c, e, request) ==
    [kind |-> "Error", pduDestination |-> request.pduSource,
     apduInvokeID |-> request.apduInvokeID, errorClass |-> c, errorCode |-> e]

\* ReadPropertyMultipleACK(context=request)
ReadPropertyMultipleACK(request, results) ==
    [kind |-> "ReadPropertyMultipleACK", pduDestination |-> request.pduSource,
     apduInvokeID |-> request.apduInvokeID, listOfReadAccessResults |-> results]

ErrorPDU(dest) == [kind |-> "ErrorPDU", pduDestination |-> dest]

\* what a handler hands back: the new content of self._response, the
\* exception it ended with ("no" when it returned) and the store as it leaves
\* it: no handler assigns to the maps, the object list or an object
Returned(resp) == [response |-> resp, raised |-> "no", store |-> store]
Raised(resp, exc) == [response |-> resp, raised |-> exc, store |-> store]

(***************************************************************************)
(* Library conversions the handlers rely on.                               *)
(***************************************************************************)
\* the object type of a type code (bacpypes ObjectType enumeration)
ObjectTypeOfCode(c) ==
    CASE c = 0 -> "analogInput"
      [] c = 3 -> "binaryInput"
      [] c = 8 -> "device"
      [] OTHER -> "reserved"

\* an ObjectIdentifier field assigned a bare integer n takes it as the packed
\* 32-bit identifier: 10 bits of type, 22 bits of instance
ObjectIdentifierOfInt(n) ==
    << ObjectTypeOfCode((n \div 4194304) % 1024), n % 4194304 >>

\* BacpypesServiceObject.read_property_to_any(obj, propertyIdentifier, index):
\* the value, or the ExecutionError it raises
read_property_to_any(obj, propertyIdentifier) ==
    IF propertyIdentifier \in DOMAIN obj.values
    THEN obj.values[propertyIdentifier]
    ELSE ExecutionError("property", "unknownProperty")

\* Any() cast in from datatype(None)
NullValue == [kind |-> "null"]

(***************************************************************************)
(* iAm, iHave                                                              *)
(***************************************************************************)
iAm == Returned(NoReply)

iHave == Returned(NoReply)

(***************************************************************************)
(* whoIs, whoHas                                                           *)
(***************************************************************************)
\* list(self.objectIdentifier.keys())[0][1]: the dictionary was created with
\* the device's identifier as its first key
FirstKeyInstance == LocalDevice.objectIdentifier[2]

\* the range test of whoIs and whoHas: a chained comparison low > instance > high
range_execute(request) ==
    IF request.deviceInstanceRangeLowLimit # None
       /\ request.deviceInstanceRangeHighLimit # None
    THEN ~ ( /\ request.deviceInstanceRangeLowLimit[1] > FirstKeyInstance
             /\ FirstKeyInstance > request.deviceInstanceRangeHighLimit[1] )
    ELSE TRUE

\* self.localDevice: the device object, which self.objectIdentifier holds
\* under the identifier it was constructed with
localDevice == objectIdentifier[LocalDevice.objectIdentifier]

\* getattr(self.localDevice, p)
DeviceText(p) == localDevice.values[p].value

\* a whoIs that applies the range test the wrong way round
whoIs_inverted(request, address, resp) ==
    IF range_execute(request) THEN Returned(resp)
    ELSE Returned(IAmRequest(PduAddress(address), deviceIdentifier,
                             IntOfText(DeviceText("maxApduLengthAccepted")),
                             DeviceText("segmentationSupported"),
                             IntOfText(DeviceText("vendorIdentifier"))))

\* a whoIs that addresses the I-Am to the global broadcast address
whoIs_broadcast(request, address, resp) ==
    IF range_execute(request)
    THEN Returned(IAmRequest(GlobalBroadcast, deviceIdentifier,
                             IntOfText(DeviceText("maxApduLengthAccepted")),
                             DeviceText("segmentationSupported"),
                             IntOfText(DeviceText("vendorIdentifier"))))
    ELSE Returned(resp)

whoIs(request, address, resp) ==
    IF range_execute(request)
    THEN Returned(IAmRequest(PduAddress(address), deviceIdentifier,
                             IntOfText(DeviceText("maxApduLengthAccepted")),
                             DeviceText("segmentationSupported"),
                             IntOfText(DeviceText("vendorIdentifier"))))
    ELSE Returned(resp)

\* the index at which a loop over a list breaks, given the indices whose
\* element satisfies the loop's test; 0 when the loop runs to its end (the
\* for ... else case)
FirstMatch(hits) ==
    IF hits = {} THEN 0 ELSE CHOOSE i \in hits : \A j \in hits : i <= j

whoHas(request, address, resp) ==
    IF ~ range_execute(request) THEN Returned(resp)
    ELSE IF Len(objectList) < 2 THEN Returned(resp)
    \* request.object is None: request.object.objectIdentifier fails
    ELSE IF request.object = None THEN Raised(resp, "AttributeError")
    \* a Who-Has by name: request.object.objectIdentifier is None
    ELSE IF request.object[1].objectIdentifier = None THEN Raised(resp, "TypeError")
    ELSE
    LET wanted == request.object[1].objectIdentifier[1]
        i == FirstMatch({ k \in 2 .. Len(objectList) :
                             /\ wanted[2] = objectList[k][2]
                             /\ wanted[1] = objectList[k][1] })
    IN  IF i = 0 THEN Returned(resp)
        ELSE Returned(IHaveRequest(PduAddress(address), deviceIdentifier,
                                   ObjectIdentifierOfInt(objectList[i][2]),
                                   objectIdentifier[objectList[i]].objectName))

(***************************************************************************)
(* readProperty                                                            *)
(***************************************************************************)
\* an answer that lacks the special case for unknownProperty
readProperty_answer_noNull(request, address, obj, source, withName) ==
    LET read == read_property_to_any(source, request.propertyIdentifier)
    IN  IF read.kind = "error"
        THEN Error(read.errorClass, read.errorCode, request)
        ELSE ReadPropertyACK(PduAddress(address), request.apduInvokeID, obj,
                             IF withName THEN Some(source.objectName) ELSE None,
                             request.propertyIdentifier, read)

\* the answer once the loop has found obj: source is the object read
readProperty_answer(request, address, obj, source, withName) ==
    LET read == read_property_to_any(source, request.propertyIdentifier)
        property_value ==
            IF read.kind = "error" THEN NullValue ELSE read
    IN  IF read.kind = "error" /\ read.errorCode # "unknownProperty"
        THEN Error(read.errorClass, read.errorCode, request)
        ELSE ReadPropertyACK(PduAddress(address), request.apduInvokeID, obj,
                             IF withName THEN Some(source.objectName) ELSE None,
                             request.propertyIdentifier, property_value)

\* a readProperty that reads every property from the device
readProperty_fromDevice(request, address, resp) ==
    IF request.objectIdentifier = None THEN Raised(resp, "TypeError")
    ELSE
    LET wanted == request.objectIdentifier[1]
        i == FirstMatch({ k \in 1 .. Len(objectList) :
                             /\ \/ wanted[2] = WildcardInstance
                                \/ wanted[2] = objectList[k][2]
                             /\ wanted[1] = objectList[k][1] })
    IN  IF i = 0 THEN Returned(Error("object", "unknownObject", request))
        ELSE Returned(readProperty_answer(request, address, objectList[i],
                                          localDevice, TRUE))

readProperty(request, address, resp) ==
    \* request.objectIdentifier is None: request.objectIdentifier[1] fails
    IF request.objectIdentifier = None THEN Raised(resp, "TypeError")
    ELSE
    LET wanted == request.objectIdentifier[1]
        i == FirstMatch({ k \in 1 .. Len(objectList) :
                             /\ \/ wanted[2] = WildcardInstance
                                \/ wanted[2] = objectList[k][2]
                             /\ wanted[1] = objectList[k][1] })
    IN  IF i = 0 THEN Returned(Error("object", "unknownObject", request))
        ELSE IF objectList[i] \in DOMAIN objectIdentifier
        THEN Returned(readProperty_answer(request, address, objectList[i],
                                          objectIdentifier[objectList[i]], TRUE))
        ELSE Returned(readProperty_answer(request, address, objectList[i],
                                          localDevice, FALSE))

(***************************************************************************)
(* readPropertyMultiple                                                    *)
(***************************************************************************)
RECURSIVE Concat(_)
Concat(seqs) ==
    IF seqs = <<>> THEN <<>> ELSE Head(seqs) \o Concat(Tail(seqs))

Selectors == {"all", "required", "optional"}

\* a ReadAccessResultElement: the value read or a property access error
ReadAccessResultElement(propertyIdentifier, readResult) ==
    [propertyIdentifier |-> propertyIdentifier, readResult |-> readResult]

UnknownObjectElement(propertyIdentifier) ==
    ReadAccessResultElement(propertyIdentifier,
                            ExecutionError("object", "unknownObject"))

\* BacpypesServiceObject.read_property_to_result_element(obj, propId, index):
\* it turns the ExecutionError of the read into a property access error
read_property_to_result_element(obj, propertyIdentifier) ==
    ReadAccessResultElement(propertyIdentifier,
                            read_property_to_any(obj, propertyIdentifier))

IsUnknownProperty(element) ==
    /\ element.readResult.kind = "error"
    /\ element.readResult.errorCode = "unknownProperty"

\* a reading where the selector required lets the optional properties through
ElementsOfReference_requiredUnfiltered(obj, propertyIdentifier) ==
    IF propertyIdentifier \in Selectors
    THEN IF obj = None
         THEN << UnknownObjectElement(propertyIdentifier) >>
         ELSE Concat([ k \in 1 .. Len(_properties) |->
                  LET prop == _properties[k]
                      element == read_property_to_result_element(obj[1], prop.identifier)
                  IN  IF prop.identifier = "propertyList" THEN <<>>
                      ELSE IF propertyIdentifier = "optional" /\ ~ prop.optional THEN <<>>
                      ELSE IF IsUnknownProperty(element) THEN <<>>
                      ELSE << element >> ])
    ELSE IF obj = None
         THEN << UnknownObjectElement(propertyIdentifier) >>
         ELSE LET element == read_property_to_result_element(obj[1], propertyIdentifier)
              IN  IF IsUnknownProperty(element) THEN <<>> ELSE << element >>

\* a reading of single properties that adds nothing when there is no object
ElementsOfReference_skipUnresolved(obj, propertyIdentifier) ==
    IF propertyIdentifier \in Selectors
    THEN IF obj = None
         THEN << UnknownObjectElement(propertyIdentifier) >>
         ELSE Concat([ k \in 1 .. Len(_properties) |->
                  LET prop == _properties[k]
                      element == read_property_to_result_element(obj[1], prop.identifier)
                  IN  IF prop.identifier = "propertyList" THEN <<>>
                      ELSE IF propertyIdentifier = "required" /\ prop.optional THEN <<>>
                      ELSE IF propertyIdentifier = "optional" /\ ~ prop.optional THEN <<>>
                      ELSE IF IsUnknownProperty(element) THEN <<>>
                      ELSE << element >> ])
    ELSE IF obj = None
         THEN << >>
         ELSE LET element == read_property_to_result_element(obj[1], propertyIdentifier)
              IN  IF IsUnknownProperty(element) THEN <<>> ELSE << element >>

\* the elements one property reference adds; obj is None or <<object>>
ElementsOfReference(obj, propertyIdentifier) ==
    IF propertyIdentifier \in Selectors
    THEN IF obj = None
         THEN << UnknownObjectElement(propertyIdentifier) >>
         ELSE Concat([ k \in 1 .. Len(_properties) |->
                  LET prop == _properties[k]
                      element == read_property_to_result_element(obj[1], prop.identifier)
                  IN  IF prop.identifier = "propertyList" THEN <<>>
                      ELSE IF propertyIdentifier = "required" /\ prop.optional THEN <<>>
                      ELSE IF propertyIdentifier = "optional" /\ ~ prop.optional THEN <<>>
                      ELSE IF IsUnknownProperty(element) THEN <<>>
                      ELSE << element >> ])
    \* reading from None raises, and the exception becomes an unknownObject error
    ELSE IF obj = None
         THEN << UnknownObjectElement(propertyIdentifier) >>
         ELSE LET element == read_property_to_result_element(obj[1], propertyIdentifier)
              IN  IF IsUnknownProperty(element) THEN <<>> ELSE << element >>

\* the object a read access specification resolves to, None when it does not
ResolveMultiple(oid) ==
    IF oid = <<"device", WildcardInstance>> \/ oid = localDevice.objectIdentifier
    THEN Some(localDevice)
    ELSE LET i == FirstMatch({ k \in 2 .. Len(objectList) : oid = objectList[k] })
         IN  IF i = 0 THEN None ELSE Some(objectIdentifier[objectList[i]])

ReadAccessResult(read_access_spec) ==
    LET obj == ResolveMultiple(read_access_spec.objectIdentifier)
        refs == read_access_spec.listOfPropertyReferences
    IN  [objectIdentifier |->
            IF obj # None /\ obj[1] = localDevice
            THEN localDevice.objectIdentifier
            ELSE read_access_spec.objectIdentifier,
         listOfResults |->
            Concat([ k \in 1 .. Len(refs) |-> ElementsOfReference(obj, refs[k]) ])]

\* a readPropertyMultiple that answers the first specification only
readPropertyMultiple_firstOnly(request, address, resp) ==
    IF request.listOfReadAccessSpecs = None THEN Raised(resp, "TypeError")
    ELSE Returned(ReadPropertyMultipleACK(request,
            << ReadAccessResult(request.listOfReadAccessSpecs[1][1]) >>))

\* a readPropertyMultiple whose wildcard branch assigns the requested
\* identifier to the device instead of the device's to the result
readPropertyMultiple_rebinding(request, address, resp) ==
    IF request.listOfReadAccessSpecs = None THEN Raised(resp, "TypeError")
    ELSE
    LET specs == request.listOfReadAccessSpecs[1]
        wildcard == << "device", WildcardInstance >>
        ack == ReadPropertyMultipleACK(request,
                   [ k \in 1 .. Len(specs) |-> ReadAccessResult(specs[k]) ])
    IN  IF \E k \in 1 .. Len(specs) : specs[k].objectIdentifier = wildcard
        THEN [response |-> ack, raised |-> "no",
              store |-> << objectName,
                           [objectIdentifier EXCEPT
                               ![LocalDevice.objectIdentifier].objectIdentifier = wildcard],
                           objectList, deviceIdentifier >>]
        ELSE Returned(ack)

readPropertyMultiple(request, address, resp) ==
    \* listOfReadAccessSpecs is None: the loop over it fails
    IF request.listOfReadAccessSpecs = None THEN Raised(resp, "TypeError")
    ELSE
    LET specs == request.listOfReadAccessSpecs[1]
    IN  Returned(ReadPropertyMultipleACK(request,
            [ k \in 1 .. Len(specs) |-> ReadAccessResult(specs[k]) ]))

(***************************************************************************)
(* indication                                                              *)
(***************************************************************************)
\* bacpypes.apdu.apdu_types: the PDU types that have a class
apdu_types == 0 .. 7

\* ConfirmedServiceChoice.enumerations and UnconfirmedServiceChoice.enumerations
ConfirmedServiceChoice ==
    [ k \in {"readProperty", "readPropertyMultiple", "writeProperty"} |->
        CASE k = "readProperty" -> 12
          [] k = "readPropertyMultiple" -> 14
          [] OTHER -> 15 ]

UnconfirmedServiceChoice ==
    [ k \in {"iAm", "iHave", "timeSynchronization", "whoHas", "whoIs"} |->
        CASE k = "iAm" -> 0
          [] k = "iHave" -> 1
          [] k = "timeSynchronization" -> 6
          [] k = "whoHas" -> 7
          [] OTHER -> 8 ]

\* confirmed_request_types, unconfirmed_request_types: the service choices
\* that have a request class
confirmed_request_types == { ConfirmedServiceChoice[k] : k \in DOMAIN ConfirmedServiceChoice }
unconfirmed_request_types == { UnconfirmedServiceChoice[k] : k \in DOMAIN UnconfirmedServiceChoice }

\* handlers iAm and iHave that return without touching the response
CallHandler_announcementsKeep(key, request, address, resp) ==
    CASE key = "iAm"                  -> Returned(resp)
      [] key = "iHave"                -> Returned(resp)
      [] key = "whoIs"                -> whoIs(request, address, resp)
      [] key = "whoHas"               -> whoHas(request, address, resp)
      [] key = "readProperty"         -> readProperty(request, address, resp)
      [] key = "readPropertyMultiple" -> readPropertyMultiple(request, address, resp)
      [] OTHER                        -> Raised(resp, "AttributeError")

\* getattr(self, key)(request, address, invoke_key, device); a key that names
\* no method of BACnetApp fails with AttributeError
CallHandler(key, request, address, resp) ==
    CASE key = "iAm"                  -> iAm
      [] key = "iHave"                -> iHave
      [] key = "whoIs"                -> whoIs(request, address, resp)
      [] key = "whoHas"               -> whoHas(request, address, resp)
      [] key = "readProperty"         -> readProperty(request, address, resp)
      [] key = "readPropertyMultiple" -> readPropertyMultiple(request, address, resp)
      [] OTHER                        -> Raised(resp, "AttributeError")

\* a loop that returns on the AttributeError of a missing handler and leaves
\* the response as it was
Dispatch_keep(enumerations, apdu, address, resp, orElse) ==
    LET keys == { k \in DOMAIN enumerations : enumerations[k] = apdu.apduService }
    IN  IF keys = {} THEN Returned(orElse)
        ELSE LET r == CallHandler(CHOOSE k \in keys : TRUE, apdu, address, resp)
             IN  IF r.raised = "AttributeError" THEN Returned(resp) ELSE r

\* the loop over the enumeration: the handler of the service choice is called,
\* an AttributeError from it gives no reply, any other exception leaves
\* indication; orElse is what the else branch of the loop assigns
Dispatch(enumerations, apdu, address, resp, orElse) ==
    LET keys == { k \in DOMAIN enumerations : enumerations[k] = apdu.apduService }
    IN  IF keys = {} THEN Returned(orElse)
        ELSE LET r == CallHandler(CHOOSE k \in keys : TRUE, apdu, address, resp)
             IN  IF r.raised = "AttributeError" THEN Returned(NoReply) ELSE r

\* a PDU type that is no request leaves its response from before in place
indication_ignored_keep(apdu, address, resp) == Returned(resp)

\* simple ack, complex ack, segment ack, error, reject, abort: ignored
indication_ignored(apdu, address, resp) == Returned(NoReply)

indication(apdu, address, resp) ==
    \* apdu_types.get() is None: apdu_type.__name__ fails
    IF apdu.apduType \notin apdu_types THEN Raised(resp, "AttributeError")
    ELSE IF apdu.apduType = 0
    THEN \* confirmed_request_types.get() is None: apdu_service.__name__ fails
         IF apdu.apduService \notin confirmed_request_types
         THEN Raised(resp, "AttributeError")
         ELSE IF apdu.decode \in {"AttributeError", "RuntimeError", "InvalidParameterDatatype"}
         THEN Returned(resp)
         ELSE IF apdu.decode \notin {"ok", "DecodingError"}
         THEN Raised(resp, apdu.decode)
         ELSE Dispatch(ConfirmedServiceChoice, apdu, address, resp, NoReply)
    ELSE IF apdu.apduType = 1
    THEN IF apdu.apduService \notin unconfirmed_request_types
         THEN Raised(resp, "AttributeError")
         ELSE IF apdu.decode \in {"AttributeError", "RuntimeError"}
         THEN Returned(NoReply)
         ELSE IF apdu.decode \notin {"ok", "DecodingError"}
         THEN Raised(resp, apdu.decode)
         ELSE Dispatch(UnconfirmedServiceChoice, apdu, address, resp,
                       ErrorPDU(PduAddress(address)))
    ELSE indication_ignored(apdu, address, resp)

(***************************************************************************)
(* response                                                                *)
(***************************************************************************)
\* the datagram: the BVLL function and the encoded APDU, which carries every
\* field of the response but its destination
Encode(bvlciFunction, response_apdu) ==
    [bvlciFunction |-> bvlciFunction,
     apdu |-> [ f \in DOMAIN response_apdu \ {"pduDestination"} |-> response_apdu[f] ]]

\* one call of self.datagram_server.sendto(data, address)
SendTo(data, address) == [data |-> data, address |-> address]

Transmitted(calls) == [sent |-> calls, raised |-> "no"]

\* a response that frames every destination but the local station as a
\* broadcast and never refuses one
response_noRaise(response_apdu, address) ==
    IF response_apdu = NoReply THEN Transmitted(<< >>)
    ELSE
    LET dest == response_apdu.pduDestination
        bvlciFunction ==
            IF dest.addrType = "localStationAddr" THEN "OriginalUnicastNPDU"
            ELSE "OriginalBroadcastNPDU"
        data == Encode(bvlciFunction, response_apdu)
    IN  IF dest.addrType = "None"
        THEN [sent |-> << >>, raised |-> "AttributeError"]
        ELSE IF response_apdu.kind \in {"Error", "ErrorPDU", "RejectPDU"}
        THEN Transmitted(<< SendTo(data, address) >>)
        ELSE IF dest.addrType = "globalBroadcast"
        THEN Transmitted(<< SendTo(data, << "", address[2] >>) >>)
        ELSE Transmitted(<< SendTo(data, address) >>)

\* a response whose branch for Error and Reject does not call sendto
response_dropErrors(response_apdu, address) ==
    IF response_apdu = NoReply THEN Transmitted(<< >>)
    ELSE
    LET dest == response_apdu.pduDestination
        bvlciFunction ==
            IF dest.addrType = "localStationAddr" THEN "OriginalUnicastNPDU"
            ELSE "OriginalBroadcastNPDU"
        data == Encode(bvlciFunction, response_apdu)
    IN  IF dest.addrType = "None"
        THEN [sent |-> << >>, raised |-> "AttributeError"]
        ELSE IF dest.addrType \notin {"localStationAddr", "localBroadcastAddr"}
        THEN [sent |-> << >>, raised |-> "RuntimeError"]
        ELSE IF response_apdu.kind \in {"Error", "ErrorPDU", "RejectPDU"}
        THEN Transmitted(<< >>)
        ELSE Transmitted(<< SendTo(data, address) >>)

response(response_apdu, address) ==
    IF response_apdu = NoReply THEN Transmitted(<< >>)
    ELSE
    LET dest == response_apdu.pduDestination
        bvlciFunction ==
            IF dest.addrType = "localStationAddr" THEN "OriginalUnicastNPDU"
            ELSE "OriginalBroadcastNPDU"
        data == Encode(bvlciFunction, response_apdu)
    IN  \* a response without destination: pdu.pduDestination.addrType fails
        IF dest.addrType = "None"
        THEN [sent |-> << >>, raised |-> "AttributeError"]
        ELSE IF dest.addrType \notin {"localStationAddr", "localBroadcastAddr"}
        THEN [sent |-> << >>, raised |-> "RuntimeError"]
        ELSE IF response_apdu.kind \in {"Error", "ErrorPDU", "RejectPDU"}
        THEN Transmitted(<< SendTo(data, address) >>)
        \* pdu.pduDestination == "*:*"
        ELSE IF dest.addrType = "globalBroadcast"
        THEN Transmitted(<< SendTo(data, << "", address[2] >>) >>)
        ELSE Transmitted(<< SendTo(data, address) >>)

(***************************************************************************)
(* Start-up: __init__, get_objects_and_properties, add_object, add_property*)
(***************************************************************************)
\* add_property(prop_name, prop_value) on the device
add_property(dev, prop_name, prop_value) ==
    [dev EXCEPT !.values =
        [ p \in DOMAIN dev.values \cup {prop_name} |->
            IF p = prop_name THEN Value(prop_value) ELSE dev.values[p] ]]

RECURSIVE AddProperties(_, _)
AddProperties(dev, info) ==
    IF info = << >> THEN dev
    ELSE AddProperties(add_property(dev, Head(info)[1], Head(info)[2]), Tail(info))

\* an add_object that does not look for the identifier among those registered
add_object_error_noIdentifier(obj) ==
    IF obj.objectName = "" THEN "object name required"
    ELSE IF obj.objectIdentifier = << >> THEN "object identifier required"
    ELSE IF obj.objectName \in DOMAIN objectName
    THEN "object already added with the same name"
    ELSE "no"

\* the RuntimeError add_object raises for obj, "no" when it registers it
add_object_error(obj) ==
    IF obj.objectName = "" THEN "object name required"
    ELSE IF obj.objectIdentifier = << >> THEN "object identifier required"
    ELSE IF obj.objectName \in DOMAIN objectName
    THEN "object already added with the same name"
    ELSE IF obj.objectIdentifier \in DOMAIN objectIdentifier
    THEN "object already added with the same identifier"
    ELSE "no"

Init ==
    /\ phase = "constructed"
    /\ objectName = [ n \in {LocalDevice.objectName} |-> LocalDevice.objectIdentifier ]
    /\ objectIdentifier = [ i \in {LocalDevice.objectIdentifier} |-> LocalDevice ]
    /\ objectList = << LocalDevice.objectIdentifier >>
    /\ deviceIdentifier = None
    /\ _response = NoReply
    /\ last = [handled |-> FALSE]
    /\ inflight = [ a \in Addrs |-> None ]

\* the first part of get_objects_and_properties: the device identifier and
\* the device properties of the template
get_device_info ==
    /\ phase = "constructed"
    /\ phase' = "loading"
    /\ deviceIdentifier' = Some(<< "device", IntOfText("36113") >>)
    /\ objectIdentifier' =
          [objectIdentifier EXCEPT ![LocalDevice.objectIdentifier] =
              AddProperties(@, DeviceInfo)]
    /\ UNCHANGED <<objectName, objectList, _response, last, inflight>>

\* an add_object that enters the name before it looks at the identifier
add_object_nameFirst(obj) ==
    /\ phase = "loading"
    /\ IF add_object_error(obj) = "no"
       THEN /\ objectName' =
                  [ n \in DOMAIN objectName \cup {obj.objectName} |->
                      IF n = obj.objectName THEN obj.objectIdentifier ELSE objectName[n] ]
            /\ objectIdentifier' =
                  [ i \in DOMAIN objectIdentifier \cup {obj.objectIdentifier} |->
                      IF i = obj.objectIdentifier THEN obj ELSE objectIdentifier[i] ]
            /\ objectList' = Append(objectList, obj.objectIdentifier)
            /\ UNCHANGED phase
       ELSE /\ phase' = "failed"
            /\ IF add_object_error(obj) = "object already added with the same identifier"
               THEN objectName' =
                      [ n \in DOMAIN objectName \cup {obj.objectName} |->
                          IF n = obj.objectName THEN obj.objectIdentifier ELSE objectName[n] ]
               ELSE UNCHANGED objectName
            /\ UNCHANGED <<objectIdentifier, objectList>>
    /\ UNCHANGED <<deviceIdentifier, _response, last, inflight>>

\* one turn of the loop of get_objects_and_properties: add_object(obj)
add_object(obj) ==
    /\ phase = "loading"
    /\ IF add_object_error(obj) = "no"
       THEN /\ objectName' =
                  [ n \in DOMAIN objectName \cup {obj.objectName} |->
                      IF n = obj.objectName THEN obj.objectIdentifier ELSE objectName[n] ]
            /\ objectIdentifier' =
                  [ i \in DOMAIN objectIdentifier \cup {obj.objectIdentifier} |->
                      IF i = obj.objectIdentifier THEN obj ELSE objectIdentifier[i] ]
            /\ objectList' = Append(objectList, obj.objectIdentifier)
            /\ UNCHANGED phase
       ELSE /\ phase' = "failed"
            /\ UNCHANGED <<objectName, objectIdentifier, objectList>>
    /\ UNCHANGED <<deviceIdentifier, _response, last, inflight>>

\* get_objects_and_properties returns: the server starts to take datagrams
StartServing ==
    /\ phase = "loading"
    /\ Len(objectList) - 1 = Len(Template)
    /\ phase' = "serving"
    /\ UNCHANGED <<store, _response, last, inflight>>

(***************************************************************************)
(* The datagrams the transport delivers from requester a.                  *)
(***************************************************************************)
Limits == (DevInst - LimitSpan) .. (DevInst + LimitSpan)

AnalogId == << "analogInput", AnalogInstance >>
BinaryId == << "binaryInput", BinaryInstance >>
\* an identifier no object of the template has
UnknownId == << "binaryInput", AnalogInstance >>

APCI(type, service, invoke, a, decode) ==
    [apduType |-> type, apduService |-> service, apduInvokeID |-> invoke,
     pduSource |-> PduAddress(a), decode |-> decode]

WhoIsRequest(a, decode, low, high) ==
    [apduType |-> 1, apduService |-> 8, apduInvokeID |-> None,
     pduSource |-> PduAddress(a), decode |-> decode,
     deviceInstanceRangeLowLimit |-> low, deviceInstanceRangeHighLimit |-> high]

WhoHasRequest(a, decode, low, high, object) ==
    [apduType |-> 1, apduService |-> 7, apduInvokeID |-> None,
     pduSource |-> PduAddress(a), decode |-> decode,
     deviceInstanceRangeLowLimit |-> low, deviceInstanceRangeHighLimit |-> high,
     object |-> object]

WhoHasObject(oid, name) == [objectIdentifier |-> oid, objectName |-> name]

ReadPropertyRequest(a, decode, invoke, oid, prop) ==
    [apduType |-> 0, apduService |-> 12, apduInvokeID |-> invoke,
     pduSource |-> PduAddress(a), decode |-> decode,
     objectIdentifier |-> oid, propertyIdentifier |-> prop]

ReadPropertyMultipleRequest(a, decode, invoke, specs) ==
    [apduType |-> 0, apduService |-> 14, apduInvokeID |-> invoke,
     pduSource |-> PduAddress(a), decode |-> decode,
     listOfReadAccessSpecs |-> specs]

ReadAccessSpecification(oid, refs) ==
    [objectIdentifier |-> oid, listOfPropertyReferences |-> refs]

\* range filters: none, both limits, one limit only
RangeOptions ==
    { << None, None >>, << Some(DevInst), None >>, << None, Some(DevInst) >> }
    \cup { << Some(l), Some(h) >> : l \in Limits, h \in Limits }

WhoHasRanges ==
    { r \in RangeOptions :
        \/ r[1] = None /\ r[2] = None
        \/ r[1] # None /\ r[2] # None
           /\ (r[1] = r[2] \/ (r[1][1] > DevInst /\ DevInst > r[2][1])) }

ReadPropertyTargets ==
    ({ DevId, AnalogId } \X { "presentValue", "description", "reliability" })
    \cup ({ << "device", WildcardInstance >>, << "analogInput", WildcardInstance >>,
            UnknownId } \X { "presentValue" })

\* read access specifications, and the requests made of them: n successive
\* specifications, starting anywhere in the list
ReadAccessSpecs ==
    << ReadAccessSpecification(AnalogId, << "all", "description" >>),
       ReadAccessSpecification(UnknownId, << "required", "presentValue" >>),
       ReadAccessSpecification(<< "device", WildcardInstance >>, << "optional", "objectName" >>),
       ReadAccessSpecification(<< "analogInput", WildcardInstance >>, << "required", "reliability" >>),
       ReadAccessSpecification(AnalogId, << "required", "optional" >>) >>

SpecLists ==
    { [ i \in 1 .. n |-> ReadAccessSpecs[((start + i - 2) % Len(ReadAccessSpecs)) + 1] ] :
        start \in 1 .. Len(ReadAccessSpecs), n \in 1 .. MaxSpecs }

\* the PDU types delivered that are no request: the six kinds of answer and
\* two of the types without a class
OtherTypes == 2 .. 7 \cup { 8, 15 }

APDUsOf == [ a \in Addrs |->
    { APCI(t, 8, Some(1), a, "ok") : t \in OtherTypes }
    \* services without a handler, and service choices without a class
    \cup { APCI(0, s, Some(1), a, "ok") : s \in { 15, 99 } }
    \cup { APCI(1, s, None, a, "ok") : s \in { 0, 1, 6, 99 } }
    \* I-Am and I-Have whose arguments do not decode
    \cup { APCI(1, s, None, a, d) :
              s \in { 0, 1 }, d \in { "DecodingError", "InvalidParameterDatatype" } }
    \cup { WhoIsRequest(a, "ok", r[1], r[2]) : r \in RangeOptions }
    \cup { WhoIsRequest(a, d, None, None) :
              d \in { "RuntimeError", "InvalidParameterDatatype", "DecodingError" } }
    \cup { WhoHasRequest(a, "ok", r[1], r[2], Some(WhoHasObject(Some(oid), None))) :
              r \in WhoHasRanges, oid \in { AnalogId, BinaryId, UnknownId } }
    \cup { WhoHasRequest(a, "ok", None, None, Some(WhoHasObject(None, Some("AI 01")))),
           WhoHasRequest(a, "DecodingError", None, None, None) }
    \cup { ReadPropertyRequest(a, "ok", Some(i), Some(t[1]), t[2]) :
              i \in InvokeIDs, t \in ReadPropertyTargets }
    \cup { ReadPropertyRequest(a, d, Some(1), None, "presentValue") :
              d \in { "RuntimeError", "InvalidParameterDatatype", "DecodingError",
                      "ValueError" } }
    \cup { ReadPropertyMultipleRequest(a, "ok", Some(i), Some(l)) :
              i \in InvokeIDs, l \in SpecLists }
    \cup { ReadPropertyMultipleRequest(a, "DecodingError", Some(1), None) } ]

APDUs(a) == APDUsOf[a]

(***************************************************************************)
(* Serving: one datagram is handled from its delivery to the send.         *)
(***************************************************************************)
\* the server's handler: indication, then response with self._response; an
\* exception of indication ends the handling of the datagram
Handle(a, apdu) ==
    /\ phase = "serving"
    /\ \E r \in { indication(apdu, a, _response) } :
       \E t \in { IF r.raised = "no" THEN response(r.response, a)
                  ELSE Transmitted(<< >>) } :
           /\ _response' = r.response
           /\ objectName' = r.store[1]
           /\ objectIdentifier' = r.store[2]
           /\ objectList' = r.store[3]
           /\ deviceIdentifier' = r.store[4]
           /\ last' = [handled |-> TRUE, apdu |-> apdu, address |-> a,
                       raised |-> r.raised, sent |-> t.sent,
                       sendRaised |-> t.raised]
    /\ UNCHANGED <<phase, inflight>>

(***************************************************************************)
(* Properties.                                                             *)
(***************************************************************************)
\* the identifiers of the objects the device owns, and of the device too
OwnedIds == { objectList[i] : i \in 2 .. Len(objectList) }
KnownIds == { objectList[i] : i \in 1 .. Len(objectList) }

\* the datagram handled last was a decoded request of the service
HandledRequest(type, service) ==
    /\ last.handled
    /\ last.apdu.apduType = type
    /\ last.apdu.apduService = service
    /\ last.apdu.decode = "ok"

HandledWhoIs == HandledRequest(1, 8)
HandledWhoHas == HandledRequest(1, 7)
HandledReadProperty == HandledRequest(0, 12)
HandledReadPropertyMultiple == HandledRequest(0, 14)

\* the range filter of the Who-Is or Who-Has handled last
NoRange ==
    /\ last.apdu.deviceInstanceRangeLowLimit = None
    /\ last.apdu.deviceInstanceRangeHighLimit = None
BothLimits ==
    /\ last.apdu.deviceInstanceRangeLowLimit # None
    /\ last.apdu.deviceInstanceRangeHighLimit # None
RangeEncloses ==
    /\ BothLimits
    /\ last.apdu.deviceInstanceRangeLowLimit[1] <= DevInst
    /\ DevInst <= last.apdu.deviceInstanceRangeHighLimit[1]
RangeExcludes ==
    /\ BothLimits
    /\ last.apdu.deviceInstanceRangeLowLimit[1] <= last.apdu.deviceInstanceRangeHighLimit[1]
    /\ \/ DevInst < last.apdu.deviceInstanceRangeLowLimit[1]
       \/ DevInst > last.apdu.deviceInstanceRangeHighLimit[1]

\* nothing was answered: the response is no reply and sendto was not called
NothingSent == _response = NoReply /\ last.sent = << >>

\* exactly the response was sent
SentResponse ==
    /\ last.raised = "no"
    /\ Len(last.sent) = 1
    /\ last.sent[1].data.apdu.kind = _response.kind

\* C1: a PDU of type simple-ack, complex-ack, segment-ack, error, reject or
\* abort leaves the response at no reply and nothing is sent for it,
\* whatever was handled before.
C1_AnswerTypesNoReply ==
    (last.handled /\ last.apdu.apduType \in 2 .. 7)
        => (last.raised = "no" /\ NothingSent)

C1_Witness ==
    /\ last.handled
    /\ last.apdu.apduType = 5
    /\ NothingSent

\* C2: a Who-Is without range, or with a range that encloses the device's
\* instance number, is answered with an I-Am that carries the configured
\* device identifier, max-APDU-length-accepted, segmentation-supported and
\* vendor id.
C2_WhoIsAnswered ==
    (HandledWhoIs /\ (NoRange \/ RangeEncloses))
        => /\ SentResponse
           /\ _response.kind = "IAmRequest"
           /\ _response.iAmDeviceIdentifier = Some(DevId)
           /\ _response.maxAPDULengthAccepted = MaxApduLengthAccepted
           /\ _response.segmentationSupported = "segmentedBoth"
           /\ _response.vendorID = VendorIdentifier
           /\ last.sent[1].data.apdu.iAmDeviceIdentifier = Some(DevId)

C2_Witness ==
    /\ HandledWhoIs
    /\ RangeEncloses
    /\ last.apdu.deviceInstanceRangeLowLimit[1] < DevInst
    /\ _response.kind = "IAmRequest"
    /\ Len(last.sent) = 1

\* C3: a Who-Is or Who-Has with both limits, low <= high, whose range
\* excludes the device's instance number is not answered.
C3_ExcludedRangeNoReply ==
    ((HandledWhoIs \/ HandledWhoHas) /\ RangeExcludes) => NothingSent

\* C4: a Who-Has without range for the identifier of a registered object is
\* answered with an I-Have that carries the device identifier, that object's
\* identifier and the name it was registered under.
C4_WhoHasAnswered ==
    (/\ HandledWhoHas
     /\ NoRange
     /\ last.apdu.object[1].objectIdentifier # None
     /\ last.apdu.object[1].objectIdentifier[1] \in OwnedIds)
        => /\ SentResponse
           /\ _response.kind = "IHaveRequest"
           /\ _response.deviceIdentifier = Some(DevId)
           /\ _response.objectIdentifier = last.apdu.object[1].objectIdentifier[1]
           /\ _response.objectName =
                 objectIdentifier[last.apdu.object[1].objectIdentifier[1]].objectName

\* C5: a Who-Has for an identifier no owned object has leaves the response
\* at no reply and nothing is sent, whatever was handled before.
C5_WhoHasUnknownNoReply ==
    (/\ HandledWhoHas
     /\ last.apdu.object[1].objectIdentifier # None
     /\ last.apdu.object[1].objectIdentifier[1] \notin OwnedIds)
        => NothingSent

\* C6: a Read-Property for an object the device owns (or the device) and a
\* property with a configured value is answered with a Read-Property-Ack
\* whose object identifier and property identifier are the requested ones and
\* whose value is the configured value.
C6_ReadPropertyValue ==
    (/\ HandledReadProperty
     /\ last.apdu.objectIdentifier[1] \in KnownIds
     /\ last.apdu.propertyIdentifier
            \in DOMAIN objectIdentifier[last.apdu.objectIdentifier[1]].values
     /\ objectIdentifier[last.apdu.objectIdentifier[1]]
            .values[last.apdu.propertyIdentifier].kind = "value")
        => /\ SentResponse
           /\ _response.kind = "ReadPropertyACK"
           /\ _response.objectIdentifier = last.apdu.objectIdentifier[1]
           /\ _response.propertyIdentifier = last.apdu.propertyIdentifier
           /\ _response.propertyValue =
                 objectIdentifier[last.apdu.objectIdentifier[1]]
                    .values[last.apdu.propertyIdentifier]
           /\ last.sent[1].data.apdu.propertyValue = _response.propertyValue

C6_Witness ==
    /\ HandledReadProperty
    /\ last.apdu.objectIdentifier[1] = AnalogId
    /\ last.apdu.propertyIdentifier = "presentValue"
    /\ _response.kind = "ReadPropertyACK"
    /\ _response.propertyValue = Value(PresentValueAI)

\* C7: a Read-Property for an identifier that is neither an owned object's
\* nor the device's (nor the device wildcard) is answered with
\* Error(object, unknownObject).
C7_ReadPropertyUnknownObject ==
    (/\ HandledReadProperty
     /\ last.apdu.objectIdentifier[1] \notin KnownIds
     /\ last.apdu.objectIdentifier[1] # << "device", WildcardInstance >>)
        => /\ SentResponse
           /\ _response.kind = "Error"
           /\ _response.errorClass = "object"
           /\ _response.errorCode = "unknownObject"

\* C8: a Read-Property for an existing object (or the device) and a property
\* the object does not have is answered with a Read-Property-Ack that carries
\* a null value; an Error answers only a read that failed otherwise, and
\* carries that failure.
C8_UnknownPropertyNull ==
    (HandledReadProperty /\ last.apdu.objectIdentifier[1] \in KnownIds)
        => LET obj == objectIdentifier[last.apdu.objectIdentifier[1]]
               prop == last.apdu.propertyIdentifier
           IN  /\ prop \notin DOMAIN obj.values
                     => /\ SentResponse
                        /\ _response.kind = "ReadPropertyACK"
                        /\ _response.propertyValue = NullValue
               /\ _response.kind = "Error"
                     => /\ prop \in DOMAIN obj.values
                        /\ obj.values[prop].kind = "error"
                        /\ obj.values[prop].errorCode # "unknownProperty"
                        /\ _response.errorCode = obj.values[prop].errorCode

C8_Witness ==
    /\ HandledReadProperty
    /\ last.apdu.objectIdentifier[1] = AnalogId
    /\ last.apdu.propertyIdentifier = "description"
    /\ _response.kind = "ReadPropertyACK"
    /\ _response.propertyValue = NullValue
    /\ Len(last.sent) = 1

\* what is sent for a datagram when nothing was handled before it
FreshSent(apdu, a) ==
    LET r == indication(apdu, a, NoReply)
    IN  IF r.raised = "no" THEN response(r.response, a).sent ELSE << >>

\* C9: what is sent for a datagram depends on the datagram and the device
\* model only: it is what would be sent had nothing been handled before.
C9_HistoryIndependent ==
    last.handled
        => /\ last.sent = FreshSent(last.apdu, last.address)
           /\ last.raised = "no"
                 => _response = indication(last.apdu, last.address, NoReply).response

\* the identifier the result of a read access specification carries
ResultIdentifier(read_access_spec) ==
    IF read_access_spec.objectIdentifier = << "device", WildcardInstance >>
    THEN DevId ELSE read_access_spec.objectIdentifier

\* C10: a Read-Property-Multiple is answered with one
\* Read-Property-Multiple-Ack, never an Error or no reply, that holds one
\* result per read access specification, in the order of the request.
C10_ReadPropertyMultipleAck ==
    HandledReadPropertyMultiple
        => /\ SentResponse
           /\ _response.kind = "ReadPropertyMultipleACK"
           /\ Len(_response.listOfReadAccessResults)
                 = Len(last.apdu.listOfReadAccessSpecs[1])
           /\ \A k \in 1 .. Len(last.apdu.listOfReadAccessSpecs[1]) :
                 _response.listOfReadAccessResults[k].objectIdentifier
                    = ResultIdentifier(last.apdu.listOfReadAccessSpecs[1][k])
           /\ last.sent[1].data.apdu.listOfReadAccessResults
                 = _response.listOfReadAccessResults

C10_Witness ==
    /\ HandledReadPropertyMultiple
    /\ Len(last.apdu.listOfReadAccessSpecs[1]) = 2
    /\ last.apdu.listOfReadAccessSpecs[1][1].objectIdentifier = UnknownId
    /\ _response.kind = "ReadPropertyMultipleACK"
    /\ Len(_response.listOfReadAccessResults) = 2
    /\ \E k \in 1 .. Len(_response.listOfReadAccessResults[1].listOfResults) :
          _response.listOfReadAccessResults[1].listOfResults[k].readResult.kind = "error"
    /\ Len(last.sent) = 1

\* C11: whatever objects add_object is called with, no two entries of the
\* store (objects or the device) share a name, no two share an identifier,
\* and no identifier is twice in the device's object list.
C11_UniqueEntries ==
    /\ \A i, j \in 1 .. Len(objectList) : objectList[i] = objectList[j] => i = j
    /\ \A a, b \in DOMAIN objectIdentifier :
          (\/ objectIdentifier[a].objectName = objectIdentifier[b].objectName
           \/ objectIdentifier[a].objectIdentifier = objectIdentifier[b].objectIdentifier)
             => a = b
    /\ \A n \in DOMAIN objectName :
          /\ objectName[n] \in DOMAIN objectIdentifier
          /\ objectIdentifier[objectName[n]].objectName = n
    /\ { objectList[i] : i \in 1 .. Len(objectList) } = DOMAIN objectIdentifier

\* every identifier is taken and one more registration was refused
C11_Witness ==
    /\ phase = "failed"
    /\ Len(objectList) = Len(ReferenceObjects) + 1
    /\ Cardinality(DOMAIN objectName) = Len(ReferenceObjects) + 1

\* C12: handling a datagram, of any PDU type and service, decoded or not,
\* leaves the name map, the identifier map, the object list and every
\* property value as they were.
C12_RequestsKeepStore == [][phase = "serving" => store' = store]_vars

C12_Witness ==
    /\ HandledReadPropertyMultiple
    /\ \E k \in 1 .. Len(last.apdu.listOfReadAccessSpecs[1]) :
          last.apdu.listOfReadAccessSpecs[1][k].objectIdentifier
              = << "device", WildcardInstance >>
    /\ SentResponse
    /\ localDevice.objectIdentifier = DevId
    /\ Len(objectList) = Len(Template) + 1

\* C13: for every APDU the dispatcher returns, with a response or with no
\* reply; it never ends with an exception.
C13_DispatcherReturns == last.handled => last.raised = "no"

\* C14: a confirmed or unconfirmed request whose service arguments fail to
\* decode is dropped: the dispatcher returns, the response is no reply and
\* nothing is sent.
C14_DecodeFailureDropped ==
    (/\ last.handled
     /\ last.apdu.apduType \in {0, 1}
     /\ last.apdu.decode # "ok")
        => (last.raised = "no" /\ NothingSent)

\* the methods of BACnetApp that the dispatcher finds by service name
HandlerKeys == {"iAm", "iHave", "whoIs", "whoHas", "readProperty", "readPropertyMultiple"}

\* the request handled last decoded and its service choice has no handler
HandledWithoutHandler ==
    /\ last.handled
    /\ last.apdu.apduType \in {0, 1}
    /\ last.apdu.decode = "ok"
    /\ LET enumerations == IF last.apdu.apduType = 0 THEN ConfirmedServiceChoice
                                                      ELSE UnconfirmedServiceChoice
       IN  ~ \E k \in HandlerKeys \cap DOMAIN enumerations :
                enumerations[k] = last.apdu.apduService

\* C15: a decoded request whose service choice has no handler gets nothing:
\* nothing is sent, and when the dispatcher returns the response is no reply.
C15_NoHandlerNoReply ==
    HandledWithoutHandler
        => /\ last.sent = << >>
           /\ last.raised = "no" => _response = NoReply

C15_Witness ==
    /\ HandledWithoutHandler
    /\ last.apdu.apduType = 0
    /\ last.apdu.apduService = ConfirmedServiceChoice["writeProperty"]
    /\ last.raised = "no"
    /\ NothingSent

\* C16: the transmitter calls sendto once for a response that is not no
\* reply, whatever the handler built (I-Am, I-Have, Read-Property-Ack,
\* Read-Property-Multiple-Ack, Error), and not at all for no reply.
C16_SentOncePerResponse ==
    (last.handled /\ last.raised = "no")
        => IF _response = NoReply
           THEN last.sent = << >>
           ELSE /\ last.sendRaised = "no"
                /\ Len(last.sent) = 1
                /\ last.sent[1].data.apdu.kind = _response.kind

C16_Witness ==
    /\ HandledReadProperty
    /\ last.apdu.objectIdentifier[1] = UnknownId
    /\ _response.kind = "Error"
    /\ Len(last.sent) = 1
    /\ last.sent[1].data.apdu.kind = "Error"

\* the dispatcher built an I-Am or an I-Have for the datagram handled last
BuiltDiscovery ==
    /\ last.handled
    /\ last.raised = "no"
    /\ last.apdu.apduType = 1
    /\ last.apdu.apduService \in { UnconfirmedServiceChoice["whoIs"],
                                    UnconfirmedServiceChoice["whoHas"] }
    /\ indication(last.apdu, last.address, NoReply).response.kind
           \in {"IAmRequest", "IHaveRequest"}

C19_WildcardDeviceOnly ==
    (HandledReadProperty /\ last.apdu.objectIdentifier[1][2] = WildcardInstance)
        => IF last.apdu.objectIdentifier[1][1] = "device"
           THEN /\ SentResponse
                /\ _response.kind = "ReadPropertyACK"
                /\ _response.objectIdentifier = DevId
           ELSE last.apdu.objectIdentifier[1] \notin OwnedIds
                   => /\ SentResponse
                      /\ _response.kind = "Error"
                      /\ _response.errorClass = "object"
                      /\ _response.errorCode = "unknownObject"

\* C20: Read-Property resolves an identifier as Read-Property-Multiple
\* does: it answers unknownObject where Read-Property-Multiple resolves
\* nothing, and from the object Read-Property-Multiple resolves otherwise.
C20_SameResolution ==
    HandledReadProperty
        => LET obj == ResolveMultiple(last.apdu.objectIdentifier[1])
           IN  IF obj = None
               THEN /\ _response.kind = "Error"
                    /\ _response.errorClass = "object"
                    /\ _response.errorCode = "unknownObject"
               ELSE _response = readProperty_answer(last.apdu, last.address,
                                    obj[1].objectIdentifier, obj[1], TRUE)

\* an identifier Read-Property-Multiple resolves to no object
Unresolved(oid) == oid \notin KnownIds /\ oid # << "device", WildcardInstance >>

\* C21: in a Read-Property-Multiple, a specification whose object cannot be
\* resolved gets, for each of its property references, selector or single
\* property, one error element (object, unknownObject), and the other
\* specifications of the request are answered all the same.
C21_UnresolvedObjectErrors ==
    HandledReadPropertyMultiple
        => LET specs == last.apdu.listOfReadAccessSpecs[1]
               results == _response.listOfReadAccessResults
           IN  /\ _response.kind = "ReadPropertyMultipleACK"
               /\ Len(results) = Len(specs)
               /\ \A k \in 1 .. Len(specs) :
                     LET refs == specs[k].listOfPropertyReferences
                         elements == results[k].listOfResults
                     IN  IF Unresolved(specs[k].objectIdentifier)
                         THEN /\ Len(elements) = Len(refs)
                              /\ \A j \in 1 .. Len(refs) :
                                    /\ elements[j].propertyIdentifier = refs[j]
                                    /\ elements[j].readResult
                                          = ExecutionError("object", "unknownObject")
                         ELSE /\ results[k].objectIdentifier = ResultIdentifier(specs[k])
                              /\ \E j \in 1 .. Len(elements) :
                                    elements[j].readResult.kind = "value"

C21_Witness ==
    /\ HandledReadPropertyMultiple
    /\ Len(last.apdu.listOfReadAccessSpecs[1]) = 2
    /\ Unresolved(last.apdu.listOfReadAccessSpecs[1][1].objectIdentifier)
    /\ ~ Unresolved(last.apdu.listOfReadAccessSpecs[1][2].objectIdentifier)
    /\ Len(_response.listOfReadAccessResults[1].listOfResults) = 2
    /\ _response.listOfReadAccessResults[1].listOfResults[2].propertyIdentifier = "presentValue"
    /\ _response.listOfReadAccessResults[1].listOfResults[2].readResult.kind = "error"
    /\ \E j \in 1 .. Len(_response.listOfReadAccessResults[2].listOfResults) :
          _response.listOfReadAccessResults[2].listOfResults[j].readResult.kind = "value"

\* the number of elements of a result list that are about property p
CountOf(elements, p) ==
    Cardinality({ j \in 1 .. Len(elements) : elements[j].propertyIdentifier = p })

\* the selector selects a property with this optional flag
Selects(selector, optional) ==
    \/ selector = "all"
    \/ selector = "required" /\ ~ optional
    \/ selector = "optional" /\ optional

\* C22: for the selectors of a specification whose object is resolved, the
\* elements come from the object's properties: required gives no optional
\* property, optional no required one, all gives both, the property list
\* never appears and neither does an element with error unknownProperty.
\* Counted per property that no single reference of the specification names.
C22_SelectorElements ==
    HandledReadPropertyMultiple
        => LET specs == last.apdu.listOfReadAccessSpecs[1]
               results == _response.listOfReadAccessResults
           IN  \A k \in 1 .. Len(specs) :
                 ~ Unresolved(specs[k].objectIdentifier)
                   => LET refs == specs[k].listOfPropertyReferences
                          elements == results[k].listOfResults
                          obj == objectIdentifier[ResultIdentifier(specs[k])]
                          singles == { refs[j] : j \in 1 .. Len(refs) } \ Selectors
                      IN  /\ \A j \in 1 .. Len(elements) :
                                /\ elements[j].propertyIdentifier # "propertyList"
                                /\ ~ IsUnknownProperty(elements[j])
                          /\ \A i \in 1 .. Len(_properties) :
                                LET p == _properties[i].identifier
                                    selecting ==
                                        { j \in 1 .. Len(refs) :
                                            /\ refs[j] \in Selectors
                                            /\ Selects(refs[j], _properties[i].optional) }
                                IN  p \notin singles
                                      => CountOf(elements, p) =
                                            IF p = "propertyList"
                                               \/ read_property_to_any(obj, p)
                                                     = ExecutionError("property", "unknownProperty")
                                            THEN 0
                                            ELSE Cardinality(selecting)

C22_Witness ==
    /\ HandledReadPropertyMultiple
    /\ Len(last.apdu.listOfReadAccessSpecs[1]) = 1
    /\ last.apdu.listOfReadAccessSpecs[1][1]
          = ReadAccessSpecification(AnalogId, << "required", "optional" >>)
    /\ Len(_response.listOfReadAccessResults[1].listOfResults) = 3
    /\ _response.listOfReadAccessResults[1].listOfResults[3].propertyIdentifier = "reliability"
    /\ _response.listOfReadAccessResults[1].listOfResults[3].readResult.kind = "error"

\* C23: every single property reference of a specification gives an element
\* about that property in the specification's result, a value or an error;
\* only selectors leave properties out.
C23_SinglePropertyAnswered ==
    HandledReadPropertyMultiple
        => LET specs == last.apdu.listOfReadAccessSpecs[1]
               results == _response.listOfReadAccessResults
           IN  \A k \in 1 .. Len(specs) :
                 LET refs == specs[k].listOfPropertyReferences
                     elements == results[k].listOfResults
                 IN  \A j \in 1 .. Len(refs) :
                       refs[j] \notin Selectors
                         => CountOf(elements, refs[j]) = 1

\* C24: the acknowledgement of a read carries the name of an owned object
\* and carries no object name when the target is the device, by its real
\* identifier or by the wildcard instance.
C24_ObjectNameInAck ==
    HandledReadProperty /\ _response.kind = "ReadPropertyACK"
        => LET oid == last.apdu.objectIdentifier[1]
           IN  /\ oid \in OwnedIds
                     => _response.objectName = Some(objectIdentifier[oid].objectName)
               /\ oid \in { DevId, << "device", WildcardInstance >> }
                     => _response.objectName = None

\* C28: a reply sent when a confirmed request was handled carries the invoke
\* id of that request, not that of an earlier request and not none.
C28_InvokeIdOfRequest ==
    (last.handled /\ last.apdu.apduType = 0 /\ last.sent # << >>)
        => \A k \in 1 .. Len(last.sent) :
              /\ last.sent[k].data.apdu.kind
                    \in {"ReadPropertyACK", "ReadPropertyMultipleACK", "Error"}
              /\ last.sent[k].data.apdu.apduInvokeID # None
              /\ last.sent[k].data.apdu.apduInvokeID = last.apdu.apduInvokeID

\* the same for the requests handled when the response slot held no reply
C28_InvokeIdWhenSlotEmpty ==
    [][ (/\ _response = NoReply
         /\ last'.handled /\ last'.apdu.apduType = 0 /\ last'.sent # << >>)
          => \A k \in 1 .. Len(last'.sent) :
                last'.sent[k].data.apdu.apduInvokeID = last'.apdu.apduInvokeID ]_vars

\* C29: nothing is sent for an incoming I-Am or I-Have, and once it has
\* been dispatched, that is when indication has returned, the response is
\* no reply.
C29_AnnouncementsUnanswered ==
    (last.handled /\ last.apdu.apduType = 1 /\ last.apdu.apduService \in {0, 1})
        => /\ last.sent = << >>
           /\ last.raised = "no" => _response = NoReply

\* a dispatched I-Have from the second requester
C29_Witness ==
    /\ last.handled
    /\ last.apdu.apduType = 1
    /\ last.apdu.apduService = 1
    /\ last.apdu.decode = "ok"
    /\ last.address = << "10.0.0.2", 50000 >>
    /\ last.raised = "no"
    /\ NothingSent

Next ==
    \/ get_device_info
    \/ \E k \in { Len(objectList) } \cap DOMAIN Template : add_object(Template[k])
    \/ StartServing
    \/ \E a \in Addrs : \E apdu \in APDUs(a) : Handle(a, apdu)

Spec == Init /\ [][Next]_vars

(***************************************************************************)
(* The store under any sequence of registrations: add_object is called     *)
(* with any object, also one whose name or identifier is empty or taken.   *)
(***************************************************************************)
CandidateNames ==
    { "", DevName } \cup { ReferenceObjects[k].objectName : k \in DOMAIN ReferenceObjects }

CandidateIds ==
    { << >>, DevId } \cup { ReferenceObjects[k].objectIdentifier : k \in DOMAIN ReferenceObjects }

Candidates ==
    { NewObject(n, i, [p \in {"objectName"} |-> Value(n)]) :
        n \in CandidateNames, i \in CandidateIds }

NextStore ==
    \/ get_device_info
    \/ \E obj \in Candidates : add_object(obj)

SpecStore == Init /\ [][NextStore]_vars

(***************************************************************************)
(* The transmitter on its own: response is called with any response and    *)
(* any requester address.                                                  *)
(***************************************************************************)
\* the destinations a response may carry: a local station, the local
\* broadcast, the global broadcast, a remote station, none
Destinations ==
    { PduAddress(a) : a \in Addrs }
    \cup { [addrType |-> t] :
              t \in {"localBroadcastAddr", "globalBroadcast", "remoteStationAddr", "None"} }

ResponsesToSend ==
    { NoReply }
    \cup { [kind |-> k, pduDestination |-> d, apduInvokeID |-> Some(i)] :
              k \in {"Error", "ErrorPDU", "RejectPDU", "ReadPropertyACK", "IAmRequest"},
              d \in Destinations, i \in InvokeIDs }

InitTransmit ==
    /\ phase = "constructed"
    /\ objectName = [ n \in {LocalDevice.objectName} |-> LocalDevice.objectIdentifier ]
    /\ objectIdentifier = [ i \in {LocalDevice.objectIdentifier} |-> LocalDevice ]
    /\ objectList = << LocalDevice.objectIdentifier >>
    /\ deviceIdentifier = None
    /\ _response = NoReply
    /\ last = [handled |-> FALSE, transmitted |-> FALSE]
    /\ inflight = [ a \in Addrs |-> None ]

\* one call response(response_apdu, address)
Transmit(response_apdu, a) ==
    /\ \E t \in { response(response_apdu, a) } :
          last' = [handled |-> FALSE, transmitted |-> TRUE,
                   response |-> response_apdu, address |-> a,
                   sent |-> t.sent, sendRaised |-> t.raised]
    /\ UNCHANGED <<phase, store, _response, inflight>>

NextTransmit == \E a \in Addrs : \E r \in ResponsesToSend : Transmit(r, a)

SpecTransmit == InitTransmit /\ [][NextTransmit]_vars

\* C17: an Error or Reject handed to the transmitter is sent, once, to the
\* address of the requester, whatever destination it carries.
C17_ErrorsToRequester ==
    (last.transmitted /\ last.response.kind \in {"Error", "ErrorPDU", "RejectPDU"})
        => /\ last.sendRaised = "no"
           /\ Len(last.sent) = 1
           /\ last.sent[1].address = last.address

\* C25: the transmitter frames a response as Original-Unicast-NPDU exactly
\* when its destination is a local station and as Original-Broadcast-NPDU
\* exactly when it is the local broadcast; with any other destination the
\* call raises and nothing is handed to the transport.
C25_Framing ==
    (last.transmitted /\ last.response # NoReply)
        => LET kind == last.response.pduDestination.addrType
               framed(f) == /\ Len(last.sent) = 1
                            /\ last.sent[1].data.bvlciFunction = f
           IN  /\ Len(last.sent) <= 1
               /\ framed("OriginalUnicastNPDU") <=> kind = "localStationAddr"
               /\ framed("OriginalBroadcastNPDU") <=> kind = "localBroadcastAddr"
               /\ kind \notin {"localStationAddr", "localBroadcastAddr"}
                     => last.sendRaised # "no" /\ last.sent = << >>

C25_Witness ==
    /\ last.transmitted
    /\ last.response # NoReply
    /\ last.response.pduDestination.addrType = "localBroadcastAddr"
    /\ last.sendRaised = "no"
    /\ Len(last.sent) = 1
    /\ last.sent[1].data.bvlciFunction = "OriginalBroadcastNPDU"

\* the objects of the object list
Listed == { objectList[i] : i \in 1 .. Len(objectList) }

\* obj has no name, no identifier, or the name or the identifier of a
\* listed object
Refused(obj) ==
    \/ obj.objectName = ""
    \/ obj.objectIdentifier = << >>
    \/ obj.objectIdentifier \in Listed
    \/ \E i \in Listed : objectIdentifier[i].objectName = obj.objectName

\* C26: a call of add_object with a missing or duplicate name or identifier
\* fails and leaves the name map, the identifier map and the object list as
\* they were; any other call enters the object in the three of them, its
\* identifier at the end of the object list.
C26_AddObjectAllOrNothing ==
    [][ \A obj \in Candidates :
          add_object(obj)
            => IF Refused(obj)
               THEN phase' = "failed" /\ store' = store
               ELSE /\ phase' = "loading"
                    /\ objectList' = Append(objectList, obj.objectIdentifier)
                    /\ DOMAIN objectName' = DOMAIN objectName \cup {obj.objectName}
                    /\ objectName'[obj.objectName] = obj.objectIdentifier
                    /\ \A n \in DOMAIN objectName : objectName'[n] = objectName[n]
                    /\ DOMAIN objectIdentifier' =
                          DOMAIN objectIdentifier \cup {obj.objectIdentifier}
                    /\ objectIdentifier'[obj.objectIdentifier] = obj
                    /\ \A i \in DOMAIN objectIdentifier :
                          objectIdentifier'[i] = objectIdentifier[i]
      ]_vars

\* a second object with the identifier of the first was refused
C26_Witness ==
    /\ phase = "failed"
    /\ Len(objectList) = 2
    /\ DOMAIN objectIdentifier = Listed
    /\ Cardinality(DOMAIN objectName) = 2

(***************************************************************************)
(* Datagrams in flight: the indication and the response of one datagram    *)
(* are two steps, and the steps of the datagrams of different requesters   *)
(* come in any order. Each requester has one datagram in flight at most.   *)
(***************************************************************************)
\* datagrams for which indication assigns self._response whatever it held:
\* an Error PDU, a Who-Is, two reads and a multiple read
ConcurrentAPDUs(a) ==
    { APCI(5, 8, Some(1), a, "ok"),
      WhoIsRequest(a, "ok", None, None),
      ReadPropertyRequest(a, "ok", Some(1), Some(AnalogId), "presentValue"),
      ReadPropertyRequest(a, "ok", Some(1), Some(UnknownId), "presentValue"),
      ReadPropertyMultipleRequest(a, "ok", Some(1),
          Some(<< ReadAccessSpecification(AnalogId, << "required", "optional" >>) >>)) }

\* the first step for a datagram of requester a: indication(apdu, address, device)
Indicate(a, apdu) ==
    /\ phase = "serving"
    /\ inflight[a] = None
    /\ \E r \in { indication(apdu, a, _response) } :
          /\ _response' = r.response
          /\ objectName' = r.store[1]
          /\ objectIdentifier' = r.store[2]
          /\ objectList' = r.store[3]
          /\ deviceIdentifier' = r.store[4]
          /\ inflight' = [inflight EXCEPT ![a] = IF r.raised = "no" THEN Some(apdu) ELSE None]
    /\ UNCHANGED <<phase, last>>

\* the second step: response(self._response, address), with the response
\* the slot holds by then
Respond(a) ==
    /\ phase = "serving"
    /\ inflight[a] # None
    /\ \E t \in { response(_response, a) } :
          last' = [handled |-> FALSE, responded |-> TRUE,
                   apdu |-> inflight[a][1], address |-> a,
                   sent |-> t.sent, sendRaised |-> t.raised]
    /\ inflight' = [inflight EXCEPT ![a] = None]
    /\ UNCHANGED <<phase, store, _response>>

InitConcurrent ==
    /\ phase = "constructed"
    /\ objectName = [ n \in {LocalDevice.objectName} |-> LocalDevice.objectIdentifier ]
    /\ objectIdentifier = [ i \in {LocalDevice.objectIdentifier} |-> LocalDevice ]
    /\ objectList = << LocalDevice.objectIdentifier >>
    /\ deviceIdentifier = None
    /\ _response = NoReply
    /\ last = [handled |-> FALSE, responded |-> FALSE]
    /\ inflight = [ a \in Addrs |-> None ]

NextConcurrent ==
    \/ get_device_info
    \/ \E k \in { Len(objectList) } \cap DOMAIN Template : add_object(Template[k])
    \/ StartServing
    \/ \E a \in Addrs : \E apdu \in ConcurrentAPDUs(a) : Indicate(a, apdu)
    \/ \E a \in Addrs : Respond(a)

SpecConcurrent == InitConcurrent /\ [][NextConcurrent]_vars

\* C27: with the steps of the datagrams of different requesters in any
\* order, what the transport is given for a requester is what that
\* requester's own datagram makes the server send: never the response built
\* for the datagram of another requester, and nothing when its datagram
\* yields no reply.
C27_OwnResponseOnly ==
    last.responded
        => LET own == FreshSent(last.apdu, last.address)
           IN  /\ \A k \in 1 .. Len(last.sent) :
                     \E j \in 1 .. Len(own) : last.sent[k] = own[j]
               /\ own = << >> => last.sent = << >>
====
